---- MODULE Spec2Model ----
(***************************************************************************)
(* Reaction prompts of classes/paginator.py: BasePaginator and its three   *)
(* variants Link, Update and Choose.  A prompt object is constructed,      *)
(* start(ctx) renders and sends a message, a background task attaches the  *)
(* reactions, the session waits for one reaction passing check() or for    *)
(* the timeout, deletes the message and returns or raises.                 *)
(***************************************************************************)
EXTENDS Integers, Sequences, FiniteSets, TLC

(* ------------------------------ bounds --------------------------------- *)

\* number of prompt objects that can be in flight together
NumSessions == 2
\* longest entry list handed to Choose
MaxEntries == 2

\* the most calls of start() on one prompt object
MaxStarts == 2

Sessions == 1..NumSessions

(* ------------------------- values of the program ----------------------- *)

\* Python's None, kept apart from every string the model uses
None == "None"

\* truthiness of an Optional[str]
Truthy(v) == v # None /\ v # ""

\* len(self.title) <= 256
TitleLimit == 256

RECURSIVE Rep(_)
\* a text of n characters
Rep(n) ==
    IF n = 0 THEN ""
    ELSE IF n % 2 = 0 THEN LET half == Rep(n \div 2) IN half \o half
    ELSE "t" \o Rep(n - 1)

\* PLATFORMS
PLATFORMS == <<
    <<"pc", "PC">>,
    <<"psn", "Playstation">>,
    <<"xbl", "Xbox">>,
    <<"nintendo-switch", "Switch">> >>

\* the cancel reaction of Link
CrossMark == ":x:"

\* Link.reactions, an insertion-ordered dict: key, value pairs
LinkReactions == <<
    <<"<:battlenet:679469162724196387>", "pc">>,
    <<"<:psn:679468542541693128>", "psn">>,
    <<"<:xbl:679469487623503930>", "xbl">>,
    <<"<:nsw:752653766377078817>", "nintendo-switch">>,
    <<CrossMark, None>> >>

\* dict.get(key) with the default None, on an ordered list of pairs
DictGet(d, k) ==
    IF \E i \in 1..Len(d) : d[i][1] = k
    THEN d[CHOOSE i \in 1..Len(d) : d[i][1] = k][2]
    ELSE None

\* the keys of a dict in iteration order
RECURSIVE DictKeys(_)
DictKeys(d) == IF d = <<>> THEN <<>> ELSE <<d[1][1]>> \o DictKeys(Tail(d))

\* f"{index}⃣", the keycap emoji of a number
Keycap(index) == ToString(index) \o "_keycap"

\* list.index(x): position (from 0) of the first occurrence
ListIndex(l, x) == (CHOOSE i \in 1..Len(l) : l[i] = x /\ \A j \in 1..(i - 1) : l[j] # x) - 1

\* "\n".join(lines)
RECURSIVE Join(_)
Join(lines) ==
    IF lines = <<>> THEN ""
    ELSE IF Len(lines) = 1 THEN lines[1]
    ELSE lines[1] \o "\n" \o Join(Tail(lines))

Range(f) == {f[i] : i \in DOMAIN f}

(* ------------------------- the surrounding world ----------------------- *)

\* self.bot.user.id
BotUser == "bot"
\* the users that start prompts and add reactions
Users == {"alice", "bob", BotUser}

\* self.message = None: no message sent so far
NoMessage == 0
\* a message of the channel that belongs to no prompt
ForeignMessage == NumSessions + 1
\* ids the transport hands out for sent messages
MessageIds == 1..NumSessions

\* every emoji a user can react with
Emojis == DictKeys(LinkReactions) \o [i \in 1..(MaxEntries + 1) |-> Keycap(i)] \o <<":thumbsup:">>

(* ------------------------------- state --------------------------------- *)

VARIABLES
    cls,          \* the class of each prompt object: "Link", "Update", "Choose"
    entries,      \* self.entries
    title,        \* self.title
    image,        \* self.image
    footer,       \* self.footer
    platform,     \* Update.platform
    username,     \* Update.username
    reactions,    \* self.reactions: a dict (Link, Update) or a list (Choose)
    embed,        \* self.embed
    description,  \* self.description
    ctx,          \* self.ctx: the invocation start() was called with
    author,       \* self.author
    message,      \* self.message: the id of the sent message
    pc,           \* where the call of start() stands
    task,         \* the add_reactions task: "none", "running", "ended"
    ridx,         \* the number of reactions add_reactions has gone through
    attached,     \* the reactions the bot attached to the message, in order
    reaction,     \* the reaction wait_for returned
    pending,      \* what paginator() is about to return or raise
    outcome,      \* what start() returned or raised to its caller
    msgs,         \* the messages that exist in the channel
    nextId,       \* the id the transport gives the next message
    sendLog,      \* the answers to the calls of ctx.send each prompt made
    deleteLog     \* the calls of message.delete() each prompt made

config == <<cls, entries, title, image, footer, platform, username>>
session == <<reactions, embed, description, ctx, author, message, pc, reaction, pending, outcome>>
registration == <<task, ridx, attached>>
transport == <<msgs, nextId, sendLog, deleteLog>>
vars == <<config, session, registration, transport>>

\* no value returned and nothing raised so far
NoOutcome == [kind |-> "none", value |-> None]
Return(v) == [kind |-> "return", value |-> v]
Raise(e) == [kind |-> "raise", value |-> e]

\* no reaction received
NoReaction == [user |-> None, message |-> NoMessage, emoji |-> None]

\* self.ctx = None
NoCtx == [author |-> None, add_reactions |-> FALSE]
\* the invocations a command can hand to start(): who invoked it, and whether
\* ctx.channel.permissions_for(ctx.me).add_reactions holds
Contexts == [author : Users, add_reactions : BOOLEAN]

\* discord.Embed() before anything is set on it
EmptyEmbed == [author |-> None, title |-> None, description |-> None,
               image |-> None, footer |-> None, fields |-> <<>>]

(* ---------------------------- construction ----------------------------- *)

\* titles a caller hands to Choose: none, empty, short, at the limit, over it
ChooseTitles == {None, "", "Pick one", Rep(TitleLimit), Rep(TitleLimit + 1)}

\* entry texts
EntryPool == {"A", "B"}
\* the entry lists a caller hands to Choose
EntryLists == UNION {[1..n -> EntryPool] : n \in 0..MaxEntries}

\* the constructor calls Link(), Update(platform, username) and
\* Choose(entries, timeout=, title=, image=, footer=) a caller can make
LinkCall == [cls |-> "Link", entries |-> <<>>, title |-> None]
UpdateCall == [cls |-> "Update", entries |-> <<>>, title |-> None]
ChooseCalls(lists, titles) == {[cls |-> "Choose", entries |-> es, title |-> t] : es \in lists, t \in titles}

\* every constructor call
AllCalls == {LinkCall, UpdateCall} \cup ChooseCalls(EntryLists, ChooseTitles)
\* the constructor calls of the runs with several prompts in flight: prompts
\* that share the keycap of 1
FewCalls == ChooseCalls({<<"A">>, <<"A", "B">>}, {"Pick one"})

\* no prompt object was constructed in this slot
Unused == [cls |-> "none", entries |-> <<>>, title |-> None]

IsLink(c) == c \in {"Link", "Update"}

\* __init__ of the three classes: the state of the objects after construction
Construct(call) ==
    /\ cls = [s \in Sessions |-> call[s].cls]
    /\ entries = [s \in Sessions |-> IF call[s].cls = "Choose" THEN call[s].entries ELSE None]
    /\ title = [s \in Sessions |->
                  IF IsLink(call[s].cls) THEN "Platform" ELSE call[s].title]
    /\ image = [s \in Sessions |-> None]
    /\ footer = [s \in Sessions |->
                  IF IsLink(call[s].cls) THEN "React with the platform you play on..." ELSE None]
    /\ platform = [s \in Sessions |-> IF call[s].cls = "Update" THEN "pc" ELSE None]
    /\ username = [s \in Sessions |-> IF call[s].cls = "Update" THEN "Player#1234" ELSE None]
    /\ reactions = [s \in Sessions |-> IF IsLink(call[s].cls) THEN LinkReactions ELSE <<>>]
    /\ embed = [s \in Sessions |-> EmptyEmbed]
    /\ description = [s \in Sessions |-> <<>>]
    /\ author = [s \in Sessions |-> None]
    /\ ctx = [s \in Sessions |-> NoCtx]
    /\ message = [s \in Sessions |-> NoMessage]
    /\ pc = [s \in Sessions |-> IF call[s].cls = "none" THEN "unused" ELSE "constructed"]
    /\ task = [s \in Sessions |-> "none"]
    /\ ridx = [s \in Sessions |-> 0]
    /\ attached = [s \in Sessions |-> <<>>]
    /\ reaction = [s \in Sessions |-> NoReaction]
    /\ pending = [s \in Sessions |-> NoOutcome]
    /\ outcome = [s \in Sessions |-> NoOutcome]
    /\ msgs = {}
    /\ nextId = 1
    /\ sendLog = [s \in Sessions |-> <<>>]
    /\ deleteLog = [s \in Sessions |-> <<>>]

\* one prompt object, constructed in any way a caller can
Init == \E c \in AllCalls : Construct([s \in Sessions |-> IF s = 1 THEN c ELSE Unused])

\* every prompt object constructed, to run side by side
InitConcurrent == \E call \in [Sessions -> FewCalls] : Construct(call)

(* ------------------------------ rendering ------------------------------ *)

\* the length test with < for <=: a title of 256 characters does not pass
TitleFitsBelowLimit(t) == Len(t) < TitleLimit

\* the length test off by one: a title of 257 characters passes
TitleFitsOffByOne(t) == Len(t) <= TitleLimit + 1

\* len(self.title) <= 256
TitleFits(t) == Len(t) <= TitleLimit

\* BasePaginator.init_embed: the embed it returns and self.description after it
init_embed(s, a) ==
    LET e0 == [EmptyEmbed EXCEPT !.author = a]
        e1 == IF Truthy(title[s]) /\ TitleFits(title[s])
              THEN [e0 EXCEPT !.title = title[s]] ELSE e0
        d1 == IF Truthy(title[s]) /\ ~TitleFits(title[s])
              THEN Append(description[s], title[s]) ELSE description[s]
        e2 == IF Truthy(image[s]) THEN [e1 EXCEPT !.image = image[s]] ELSE e1
        e3 == IF Truthy(footer[s]) THEN [e2 EXCEPT !.footer = footer[s]] ELSE e2
    IN [embed |-> e3, description |-> d1]

\* the loop without its continue: a line for the cancel reaction too
RECURSIVE LinkLinesWithCancel(_)
LinkLinesWithCancel(d) ==
    IF d = <<>> THEN <<>>
    ELSE <<d[1][1] \o " - " \o DictGet(PLATFORMS, d[1][2])>> \o LinkLinesWithCancel(Tail(d))

\* the loop of Link.start and Update.start over self.reactions.items()
RECURSIVE LinkLines(_)
LinkLines(d) ==
    IF d = <<>> THEN <<>>
    ELSE IF d[1][2] = None THEN LinkLines(Tail(d))
    ELSE <<d[1][1] \o " - " \o DictGet(PLATFORMS, d[1][2])>> \o LinkLines(Tail(d))

\* a loop that goes one index too far: a keycap more than there are entries
ChooseMarkersOneMore(es) == [i \in 1..(Len(es) + 1) |-> Keycap(i)]

\* the loop of Choose.start: one keycap per entry
ChooseMarkers(es) == [i \in 1..Len(es) |-> Keycap(i)]
\* the loop of Choose.start: one line per entry
ChooseLines(es) == [i \in 1..Len(es) |-> ToString(i) \o ". " \o es[i]]

\* Update.start with the two add_field calls moved behind super().start(ctx):
\* the embed goes out without its fields
RenderFieldsLate(s, c) ==
    LET r == init_embed(s, c.author)
        lines == IF cls[s] = "Link" THEN LinkLines(reactions[s])
                 ELSE IF cls[s] = "Update"
                      THEN LinkLines(reactions[s]) \o <<"\nProfile to update:">>
                      ELSE ChooseLines(entries[s])
        d == r.description \o lines
    IN /\ ctx' = [ctx EXCEPT ![s] = c]
       /\ author' = [author EXCEPT ![s] = c.author]
       /\ reactions' = [reactions EXCEPT ![s] =
                          IF cls[s] = "Choose" THEN @ \o ChooseMarkers(entries[s]) ELSE @]
       /\ description' = [description EXCEPT ![s] = d]
       /\ embed' = [embed EXCEPT ![s] = [r.embed EXCEPT !.description = Join(d)]]

\* what Link.start, Update.start and Choose.start do before super().start(ctx)
Render(s, c) ==
    LET r == init_embed(s, c.author)
        lines == IF cls[s] = "Link" THEN LinkLines(reactions[s])
                 ELSE IF cls[s] = "Update"
                      THEN LinkLines(reactions[s]) \o <<"\nProfile to update:">>
                      ELSE ChooseLines(entries[s])
        d == r.description \o lines
        fields == IF cls[s] = "Update"
                  THEN << [name |-> "Platform", value |-> platform[s]],
                          [name |-> "Username", value |-> username[s]] >>
                  ELSE <<>>
    IN /\ ctx' = [ctx EXCEPT ![s] = c]
       /\ author' = [author EXCEPT ![s] = c.author]
       /\ reactions' = [reactions EXCEPT ![s] =
                          IF cls[s] = "Choose" THEN @ \o ChooseMarkers(entries[s]) ELSE @]
       /\ description' = [description EXCEPT ![s] = d]
       /\ embed' = [embed EXCEPT ![s] =
                      [r.embed EXCEPT !.description = Join(d), !.fields = fields]]

(* ------------------------------ the session ---------------------------- *)

\* start() without its permission test
CanAddReactionsUnchecked(c) == TRUE

\* ctx.channel.permissions_for(ctx.me).add_reactions
CanAddReactions(c) == c.add_reactions

\* start(ctx) up to the call of ctx.send: the subclass renders, BasePaginator.start
\* checks the permission and raises CannotAddReactions or enters paginator()
Start(s, c) ==
    /\ pc[s] = "constructed"
    /\ Render(s, c)
    /\ IF CanAddReactions(c)
       THEN /\ pc' = [pc EXCEPT ![s] = "sending"]
            /\ outcome' = outcome
       ELSE /\ pc' = [pc EXCEPT ![s] = "done"]
            /\ outcome' = [outcome EXCEPT ![s] = Raise("CannotAddReactions")]
    /\ UNCHANGED <<config, message, reaction, pending, registration, transport>>

\* a send wrapped in the try of the wait: its error leaves start() as NoChoice
SendErrorAsNoChoice(s, answer) ==
    /\ pc[s] = "sending"
    /\ sendLog' = [sendLog EXCEPT ![s] = Append(@, answer)]
    /\ IF answer = "ok"
       THEN /\ message' = [message EXCEPT ![s] = nextId]
            /\ msgs' = msgs \cup {nextId}
            /\ nextId' = nextId + 1
            /\ task' = [task EXCEPT ![s] = "running"]
            /\ ridx' = [ridx EXCEPT ![s] = 0]
            /\ pc' = [pc EXCEPT ![s] = "waiting"]
            /\ outcome' = outcome
       ELSE /\ pc' = [pc EXCEPT ![s] = "done"]
            /\ outcome' = [outcome EXCEPT ![s] = Raise("NoChoice")]
            /\ UNCHANGED <<message, msgs, nextId, task, ridx>>
    /\ UNCHANGED <<config, reactions, embed, description, ctx, author, reaction, pending,
                   attached, deleteLog>>

\* self.message = await self.ctx.send(embed=self.embed), then create_task and the
\* registration of the wait; or the send raises and the error leaves start()
Send(s, answer) ==
    /\ pc[s] = "sending"
    /\ sendLog' = [sendLog EXCEPT ![s] = Append(@, answer)]
    /\ IF answer = "ok"
       THEN /\ message' = [message EXCEPT ![s] = nextId]
            /\ msgs' = msgs \cup {nextId}
            /\ nextId' = nextId + 1
            /\ task' = [task EXCEPT ![s] = "running"]
            /\ ridx' = [ridx EXCEPT ![s] = 0]
            /\ pc' = [pc EXCEPT ![s] = "waiting"]
            /\ outcome' = outcome
       ELSE /\ pc' = [pc EXCEPT ![s] = "done"]
            /\ outcome' = [outcome EXCEPT ![s] = Raise(answer)]
            /\ UNCHANGED <<message, msgs, nextId, task, ridx>>
    /\ UNCHANGED <<config, reactions, embed, description, ctx, author, reaction, pending,
                   attached, deleteLog>>

\* x in self.reactions: a key of the dict, or an element of the list
InReactions(s, x) ==
    IF IsLink(cls[s]) THEN \E i \in 1..Len(reactions[s]) : reactions[s][i][1] = x
    ELSE \E i \in 1..Len(reactions[s]) : reactions[s][i] = x

\* iterating self.reactions: the keys of the dict, or the list
ReactionList(s) == IF IsLink(cls[s]) THEN DictKeys(reactions[s]) ELSE reactions[s]

\* check accepting only the reactions the bot has attached so far
checkAttachedOnly(s, r) ==
    IF r.user # author[s] THEN FALSE
    ELSE IF r.user = BotUser THEN FALSE
    ELSE IF r.message # message[s] THEN FALSE
    ELSE IF r.emoji \notin Range(attached[s]) THEN FALSE
    ELSE TRUE

\* check without the test of the emoji
checkAnyEmoji(s, r) ==
    IF r.user # author[s] THEN FALSE
    ELSE IF r.user = BotUser THEN FALSE
    ELSE IF r.message # message[s] THEN FALSE
    ELSE TRUE

\* check without the test of the message
checkAnyMessage(s, r) ==
    IF r.user # author[s] THEN FALSE
    ELSE IF r.user = BotUser THEN FALSE
    ELSE IF ~InReactions(s, r.emoji) THEN FALSE
    ELSE TRUE

\* check without the test of the bot's own id
checkNoSelfTest(s, r) ==
    IF r.user # author[s] THEN FALSE
    ELSE IF r.message # message[s] THEN FALSE
    ELSE IF ~InReactions(s, r.emoji) THEN FALSE
    ELSE TRUE

\* the filter check(r, u) of paginator(); r carries the reacting user u
check(s, r) ==
    IF r.user # author[s] THEN FALSE
    ELSE IF r.user = BotUser THEN FALSE
    ELSE IF r.message # message[s] THEN FALSE
    ELSE IF ~InReactions(s, r.emoji) THEN FALSE
    ELSE TRUE

\* Link.result answering with the display name of the platform
LinkResultDisplayName(s, r) == Return(DictGet(PLATFORMS, DictGet(reactions[s], r.emoji)))

\* Link.result (inherited by Update)
LinkResult(s, r) == Return(DictGet(reactions[s], r.emoji))

\* Choose.result taking the index of the keycap for the index of the list
ChooseResultOffByOne(s, r) ==
    IF ~InReactions(s, r.emoji) THEN Raise("ValueError")
    ELSE LET i == ListIndex(reactions[s], r.emoji) + 1 IN
         IF i >= Len(entries[s]) THEN Raise("IndexError") ELSE Return(entries[s][i + 1])

\* Choose.result taking the last position of the keycap in self.reactions
ChooseResultLastIndex(s, r) ==
    IF ~InReactions(s, r.emoji) THEN Raise("ValueError")
    ELSE LET l == reactions[s]
             i == (CHOOSE j \in 1..Len(l) : l[j] = r.emoji /\ \A k \in (j + 1)..Len(l) : l[k] # r.emoji) - 1
         IN IF i >= Len(entries[s]) THEN Raise("IndexError") ELSE Return(entries[s][i + 1])

\* Choose.result; list.index raises ValueError, and a list index is counted from 0
ChooseResult(s, r) ==
    IF ~InReactions(s, r.emoji) THEN Raise("ValueError")
    ELSE LET i == ListIndex(reactions[s], r.emoji) IN
         IF i >= Len(entries[s]) THEN Raise("IndexError") ELSE Return(entries[s][i + 1])

\* self.result(reaction)
result(s, r) == IF IsLink(cls[s]) THEN LinkResult(s, r) ELSE ChooseResult(s, r)

\* the reaction_add events the gateway can deliver
Reactions == [user : Users, message : (1..(nextId - 1)) \cup {ForeignMessage}, emoji : Range(Emojis)]

\* a wait that is still registered after its timeout: an event can end it again
SignalAfterTimeout(r) ==
    /\ \E s \in Sessions : pc[s] \in {"waiting", "timedout"}
    /\ pc' = [s \in Sessions |->
                IF pc[s] \in {"waiting", "timedout"} /\ check(s, r) THEN "accepted" ELSE pc[s]]
    /\ reaction' = [s \in Sessions |->
                      IF pc[s] \in {"waiting", "timedout"} /\ check(s, r) THEN r ELSE reaction[s]]
    /\ UNCHANGED <<config, reactions, embed, description, ctx, author, message, pending,
                   outcome, registration, transport>>

\* the bot dispatches one reaction_add event: every wait whose check accepts it ends
Signal(r) ==
    /\ \E s \in Sessions : pc[s] = "waiting"
    /\ pc' = [s \in Sessions |-> IF pc[s] = "waiting" /\ check(s, r) THEN "accepted" ELSE pc[s]]
    /\ reaction' = [s \in Sessions |->
                      IF pc[s] = "waiting" /\ check(s, r) THEN r ELSE reaction[s]]
    /\ UNCHANGED <<config, reactions, embed, description, ctx, author, message, pending,
                   outcome, registration, transport>>

\* wait_for called with timeout=None: the wait never times out
TimeOutNever(s) ==
    /\ FALSE
    /\ UNCHANGED vars

\* wait_for raises asyncio.TimeoutError
TimeOut(s) ==
    /\ pc[s] = "waiting"
    /\ pc' = [pc EXCEPT ![s] = "timedout"]
    /\ UNCHANGED <<config, reactions, embed, description, ctx, author, message, reaction,
                   pending, outcome, registration, transport>>

\* the classes of the errors message.delete() and add_reaction raise, with bases
Bases(e) == IF e \in {"Forbidden", "NotFound"} THEN {e, "HTTPException"} ELSE {e}

\* with suppress(discord.Forbidden) alone
SuppressedForbiddenOnly(e) == Bases(e) \cap {"Forbidden"} # {}

\* with suppress(discord.HTTPException, discord.Forbidden)
Suppressed(e) == Bases(e) \cap {"HTTPException", "Forbidden"} # {}

\* what message.delete() can answer for message m
DeleteAnswers(m) == IF m \in msgs THEN {"ok", "Forbidden", "HTTPException"} ELSE {"NotFound"}

\* a timeout that ends the wait with the value None
EndingTimeoutReturnsNone(s) ==
    IF pc[s] = "accepted" THEN result(s, reaction[s]) ELSE Return(None)

\* the except and else branches of paginator(): raise NoChoice() from None, or
\* return self.result(reaction)
Ending(s) == IF pc[s] = "accepted" THEN result(s, reaction[s]) ELSE Raise("NoChoice")

\* cleanup() called in the else branch only: a timeout leaves the message
CleanupOnSelectionOnly(s, answer) ==
    /\ pc[s] \in {"accepted", "timedout"}
    /\ IF pc[s] = "accepted"
       THEN /\ answer \in (IF message[s] \in msgs THEN {"ok", "Forbidden", "HTTPException"}
                                                  ELSE {"NotFound"})
            /\ deleteLog' = [deleteLog EXCEPT ![s] =
                               Append(@, [message |-> message[s], answer |-> answer])]
            /\ msgs' = IF answer = "ok" THEN msgs \ {message[s]} ELSE msgs
            /\ pending' = [pending EXCEPT ![s] = result(s, reaction[s])]
       ELSE /\ answer = "ok"
            /\ pending' = [pending EXCEPT ![s] = Raise("NoChoice")]
            /\ UNCHANGED <<deleteLog, msgs>>
    /\ pc' = [pc EXCEPT ![s] = "cleaned"]
    /\ UNCHANGED <<config, reactions, embed, description, ctx, author, message, reaction,
                   outcome, registration, nextId, sendLog>>

\* the finally of paginator(): await self.cleanup(), which deletes the message; an
\* error that cleanup() does not suppress replaces what paginator() was ending with
Cleanup(s, answer) ==
    /\ pc[s] \in {"accepted", "timedout"}
    /\ answer \in DeleteAnswers(message[s])
    /\ deleteLog' = [deleteLog EXCEPT ![s] = Append(@, [message |-> message[s], answer |-> answer])]
    /\ msgs' = IF answer = "ok" THEN msgs \ {message[s]} ELSE msgs
    /\ pending' = [pending EXCEPT ![s] =
                     IF answer # "ok" /\ ~Suppressed(answer) THEN Raise(answer)
                     ELSE Ending(s)]
    /\ pc' = [pc EXCEPT ![s] = "cleaned"]
    /\ UNCHANGED <<config, reactions, embed, description, ctx, author, message, reaction,
                   outcome, registration, nextId, sendLog>>

\* paginator() and start() return or raise to the caller
Finish(s) ==
    /\ pc[s] = "cleaned"
    /\ pc' = [pc EXCEPT ![s] = "done"]
    /\ outcome' = [outcome EXCEPT ![s] = pending[s]]
    /\ UNCHANGED <<config, reactions, embed, description, ctx, author, message, reaction,
                   pending, registration, transport>>

\* add_reactions going through self.reactions from its end
AddReactionReversed(s, ok) ==
    /\ task[s] = "running"
    /\ LET l == ReactionList(s) IN
         IF ridx[s] >= Len(l)
         THEN /\ task' = [task EXCEPT ![s] = "ended"]
              /\ UNCHANGED <<ridx, attached>>
         ELSE IF ok /\ message[s] \in msgs
              THEN /\ attached' = [attached EXCEPT ![s] = Append(@, l[Len(l) - ridx[s]])]
                   /\ ridx' = [ridx EXCEPT ![s] = @ + 1]
                   /\ task' = [task EXCEPT ![s] = IF ridx[s] + 1 = Len(l) THEN "ended" ELSE "running"]
              ELSE /\ task' = [task EXCEPT ![s] = "ended"]
                   /\ UNCHANGED <<ridx, attached>>
    /\ UNCHANGED <<config, session, transport>>

\* add_reactions with continue for return: a failed attach is skipped
AddReactionContinue(s, ok) ==
    /\ task[s] = "running"
    /\ LET l == ReactionList(s) IN
         IF ridx[s] >= Len(l)
         THEN /\ task' = [task EXCEPT ![s] = "ended"]
              /\ UNCHANGED <<ridx, attached>>
         ELSE /\ attached' = [attached EXCEPT ![s] =
                               IF ok /\ message[s] \in msgs THEN Append(@, l[ridx[s] + 1]) ELSE @]
              /\ ridx' = [ridx EXCEPT ![s] = @ + 1]
              /\ task' = [task EXCEPT ![s] = IF ridx[s] + 1 = Len(l) THEN "ended" ELSE "running"]
    /\ UNCHANGED <<config, session, transport>>

\* one turn of the loop of add_reactions: the next reaction is attached, or the
\* call fails and the task returns; the task ends when the loop is through
AddReaction(s, ok) ==
    /\ task[s] = "running"
    /\ LET l == ReactionList(s) IN
         IF ridx[s] >= Len(l)
         THEN /\ task' = [task EXCEPT ![s] = "ended"]
              /\ UNCHANGED <<ridx, attached>>
         ELSE IF ok /\ message[s] \in msgs
              THEN /\ attached' = [attached EXCEPT ![s] = Append(@, l[ridx[s] + 1])]
                   /\ ridx' = [ridx EXCEPT ![s] = @ + 1]
                   /\ task' = [task EXCEPT ![s] = IF ridx[s] + 1 = Len(l) THEN "ended" ELSE "running"]
              ELSE /\ task' = [task EXCEPT ![s] = "ended"]
                   /\ UNCHANGED <<ridx, attached>>
    /\ UNCHANGED <<config, session, transport>>

\* somebody else deletes a message of the channel
ExternalDelete(m) ==
    /\ m \in msgs
    /\ msgs' = msgs \ {m}
    /\ UNCHANGED <<config, session, registration, nextId, sendLog, deleteLog>>

\* what ctx.send can answer
SendAnswers == {"ok", "Forbidden", "HTTPException"}

Next ==
    \/ \E s \in Sessions, c \in Contexts : Start(s, c)
    \/ \E s \in Sessions, answer \in SendAnswers : Send(s, answer)
    \/ \E r \in Reactions : Signal(r)
    \/ \E s \in Sessions : TimeOut(s)
    \/ \E s \in Sessions, answer \in {"ok", "Forbidden", "HTTPException", "NotFound"} : Cleanup(s, answer)
    \/ \E s \in Sessions : Finish(s)
    \/ \E s \in Sessions, ok \in BOOLEAN : AddReaction(s, ok)
    \/ \E m \in MessageIds : ExternalDelete(m)

\* the steps of runs in which the transport answers every call with success
NextConcurrent ==
    \/ \E s \in Sessions, c \in Contexts : Start(s, c)
    \/ \E s \in Sessions : Send(s, "ok")
    \/ \E r \in Reactions : Signal(r)
    \/ \E s \in Sessions : TimeOut(s)
    \/ \E s \in Sessions : Cleanup(s, "ok")
    \/ \E s \in Sessions : Finish(s)
    \/ \E s \in Sessions : AddReaction(s, TRUE)

\* one prompt, every way of constructing it, a transport that can fail
Spec == Init /\ [][Next]_vars

\* several prompts in flight together
SpecConcurrent == InitConcurrent /\ [][NextConcurrent]_vars

\* the transport answers every call (send, delete, add_reaction), the clock of
\* the timeout advances and the event loop runs every task that can run
Fairness ==
    \A s \in Sessions :
        /\ WF_vars(\E answer \in SendAnswers : Send(s, answer))
        /\ WF_vars(TimeOut(s))
        /\ WF_vars(\E answer \in {"ok", "Forbidden", "HTTPException", "NotFound"} : Cleanup(s, answer))
        /\ WF_vars(Finish(s))
        /\ WF_vars(\E ok \in BOOLEAN : AddReaction(s, ok))

\* one prompt, with calls that return and a clock that advances
SpecLive == Init /\ [][Next]_vars /\ Fairness

(* ------------------------ start() on a used object --------------------- *)

\* Choose prompts with one or two entries, a short title or one beyond the limit
RestartCalls == ChooseCalls({<<"A">>, <<"A", "B">>}, {"Pick one", Rep(TitleLimit + 1)})

\* one Choose prompt object that its caller starts more than once
InitRestart == \E c \in RestartCalls : Construct([s \in Sessions |-> IF s = 1 THEN c ELSE Unused])

\* start(ctx) called on an object whose earlier call of start() has ended and
\* whose add_reactions task is through: __init__ does not run again, the
\* subclass renders onto the self.description and self.reactions it finds, and
\* BasePaginator.start goes on as in the first call; the locals of the call and
\* the task are those of the new call
StartAgain(s, c) ==
    /\ pc[s] = "done"
    /\ task[s] # "running"
    /\ Len(reactions[s]) < MaxStarts * Len(entries[s])
    /\ Render(s, c)
    /\ IF CanAddReactions(c)
       THEN /\ pc' = [pc EXCEPT ![s] = "sending"]
            /\ outcome' = [outcome EXCEPT ![s] = NoOutcome]
       ELSE /\ pc' = [pc EXCEPT ![s] = "done"]
            /\ outcome' = [outcome EXCEPT ![s] = Raise("CannotAddReactions")]
    /\ reaction' = [reaction EXCEPT ![s] = NoReaction]
    /\ pending' = [pending EXCEPT ![s] = NoOutcome]
    /\ task' = [task EXCEPT ![s] = "none"]
    /\ ridx' = [ridx EXCEPT ![s] = 0]
    /\ attached' = [attached EXCEPT ![s] = <<>>]
    /\ UNCHANGED <<config, message, transport>>

NextRestart ==
    \/ Next
    \/ \E s \in Sessions, c \in Contexts : StartAgain(s, c)

\* one Choose prompt object started again after each of its sessions ended
SpecRestart == InitRestart /\ [][NextRestart]_vars

(* ------------------------------ properties ----------------------------- *)

\* start() was called on the prompt
Started(s) == pc[s] \notin {"unused", "constructed"}

\* everything that belongs to one session
SessionState(s) ==
    <<reactions[s], embed[s], description[s], ctx[s], author[s], message[s], pc[s],
      reaction[s], pending[s], outcome[s], task[s], ridx[s], attached[s], sendLog[s],
      deleteLog[s]>>

\* the markers a prompt is configured with: the five of Link, a keycap per entry
MarkerSet(s) ==
    IF IsLink(cls[s])
    THEN {"<:battlenet:679469162724196387>", "<:psn:679468542541693128>",
          "<:xbl:679469487623503930>", "<:nsw:752653766377078817>", CrossMark}
    ELSE {Keycap(i) : i \in 1..Len(entries[s])}

\* the four conditions on a reaction event
FilterPasses(s, r) ==
    /\ r.user = author[s]
    /\ r.user # BotUser
    /\ r.message = message[s]
    /\ r.emoji \in MarkerSet(s)

\* the send of the prompt failed
SendFailed(s) == sendLog[s] # <<>> /\ sendLog[s][Len(sendLog[s])] # "ok"

\* C1: once the send succeeded, start() has returned or raised only after a
\* delete of the rendered message was attempted
C1_CleanupBeforeEveryEnd ==
    \A s \in Sessions :
        (outcome[s].kind # "none" /\ message[s] # NoMessage) =>
            /\ Len(deleteLog[s]) >= 1
            /\ deleteLog[s][1].message = message[s]

\* C1: a start() that returned a value, after its delete
C1_Witness ==
    \E s \in Sessions :
        /\ pc[s] = "done" /\ outcome[s].kind = "return"
        /\ message[s] # NoMessage /\ Len(deleteLog[s]) >= 1

\* C2: a session that got no accepted reaction before the timeout raises NoChoice,
\* returns nothing, and made exactly one delete call, on its own message
C2_TimeoutRaisesNoChoice ==
    \A s \in Sessions :
        /\ pc[s] = "timedout" => outcome[s] = NoOutcome /\ deleteLog[s] = <<>>
        /\ (pc[s] \in {"cleaned", "done"} /\ message[s] # NoMessage /\ reaction[s] = NoReaction) =>
              /\ pending[s] = Raise("NoChoice")
              /\ pc[s] = "done" => outcome[s] = Raise("NoChoice")
              /\ Len(deleteLog[s]) = 1
              /\ deleteLog[s][1].message = message[s]
              /\ deleteLog[s][1].answer = "ok" => message[s] \notin msgs

\* C2: a session that timed out and ended
C2_Witness ==
    \E s \in Sessions :
        /\ pc[s] = "done" /\ reaction[s] = NoReaction
        /\ outcome[s] = Raise("NoChoice") /\ Len(deleteLog[s]) = 1

\* C3: start() in a channel without the add-reactions permission raises
\* CannotAddReactions and sends nothing, starts no task, waits for nothing and
\* deletes nothing, whatever the class of the prompt
C3_NoPermissionNoSend ==
    \A s \in Sessions :
        (Started(s) /\ ~ctx[s].add_reactions) =>
            /\ pc[s] = "done"
            /\ outcome[s] = Raise("CannotAddReactions")
            /\ sendLog[s] = <<>>
            /\ message[s] = NoMessage
            /\ message[s] \notin msgs
            /\ task[s] = "none" /\ attached[s] = <<>>
            /\ reaction[s] = NoReaction
            /\ deleteLog[s] = <<>>

\* C3: an Update prompt started without the permission
C3_Witness ==
    \E s \in Sessions :
        /\ cls[s] = "Update" /\ Started(s) /\ ~ctx[s].add_reactions
        /\ outcome[s] = Raise("CannotAddReactions")

\* C4: a reaction event ends the wait of a session exactly when the four
\* conditions hold: dispatching it to a waiting session ends the wait with that
\* reaction if they do, and leaves the session as it was if one of them fails
C4_SignalEndsWaitIff ==
    \A s \in Sessions :
        /\ pc[s] = "waiting" =>
              \A r \in Reactions :
                  IF FilterPasses(s, r)
                  THEN ENABLED (Signal(r) /\ pc'[s] = "accepted" /\ reaction'[s] = r)
                  ELSE ENABLED (Signal(r) /\ SessionState(s)' = SessionState(s))
        /\ pc[s] = "accepted" => FilterPasses(s, reaction[s])

\* C4: a session whose wait ended on a reaction
C4_Witness ==
    \E s \in Sessions : pc[s] = "accepted" /\ FilterPasses(s, reaction[s])

\* C5: with several sessions in flight, dispatching an event on another message
\* changes nothing of a session, a session is resolved by a reaction on its own
\* message only, and it deletes its own message only
C5_SessionsIsolated ==
    \A s \in Sessions :
        /\ (\E t \in Sessions : pc[t] = "waiting") =>
              \A r \in Reactions :
                  r.message # message[s] =>
                      ENABLED (Signal(r) /\ SessionState(s)' = SessionState(s))
        /\ reaction[s] # NoReaction => reaction[s].message = message[s]
        /\ \A i \in 1..Len(deleteLog[s]) : deleteLog[s][i].message = message[s]
        /\ \A t \in Sessions \ {s} : message[s] # NoMessage => message[s] # message[t]

\* C5: two sessions of the same user wait together and one of them is resolved
C5_Witness ==
    \E s, t \in Sessions :
        /\ s # t /\ author[s] = author[t]
        /\ pc[s] = "accepted" /\ pc[t] = "waiting"

\* the value each marker of Link stands for
PlatformOf(e) ==
    CASE e = "<:battlenet:679469162724196387>" -> "pc"
      [] e = "<:psn:679468542541693128>" -> "psn"
      [] e = "<:xbl:679469487623503930>" -> "xbl"
      [] e = "<:nsw:752653766377078817>" -> "nintendo-switch"
      [] e = CrossMark -> None
      [] OTHER -> "no marker of Link"

\* C6: a Link prompt returns None for the cancel marker and the identifier of
\* the platform for a platform marker, and never returns anything else
C6_LinkResolves ==
    \A s \in Sessions :
        cls[s] = "Link" =>
            /\ (pc[s] = "done" /\ reaction[s] # NoReaction) =>
                  outcome[s] = Return(PlatformOf(reaction[s].emoji))
            /\ outcome[s].kind = "return" =>
                  outcome[s].value \in {None, "pc", "psn", "xbl", "nintendo-switch"}

\* C6: a Link prompt cancelled with the cross mark
C6_Witness ==
    \E s \in Sessions :
        /\ cls[s] = "Link" /\ pc[s] = "done"
        /\ reaction[s].emoji = CrossMark /\ outcome[s] = Return(None)

\* C7: a Choose prompt with n >= 1 entries returns entry i for the keycap of i,
\* and dispatching an event with any other marker leaves the session waiting
C7_ChooseResolves ==
    \A s \in Sessions :
        (cls[s] = "Choose" /\ Len(entries[s]) >= 1) =>
            /\ (pc[s] = "done" /\ reaction[s] # NoReaction) =>
                  \E i \in 1..Len(entries[s]) :
                      /\ reaction[s].emoji = Keycap(i)
                      /\ outcome[s] = Return(entries[s][i])
            /\ pc[s] = "waiting" =>
                  \A r \in Reactions :
                      /\ r.emoji \notin {Keycap(i) : i \in 1..Len(entries[s])} =>
                            ENABLED (Signal(r) /\ SessionState(s)' = SessionState(s))
                      /\ (FilterPasses(s, r) /\ r.emoji \in {Keycap(i) : i \in 1..Len(entries[s])}) =>
                            ENABLED (Signal(r) /\ pc'[s] = "accepted" /\ reaction'[s] = r)

\* C7: entries A, B and the keycap of 2: start() returned B
C7_Witness ==
    \E s \in Sessions :
        /\ cls[s] = "Choose" /\ pc[s] = "done" /\ entries[s] = <<"A", "B">>
        /\ reaction[s].emoji = Keycap(2) /\ outcome[s] = Return("B")

\* the lines start() adds to the body, by class
BodyLines(s) ==
    IF cls[s] = "Link" THEN LinkLines(LinkReactions)
    ELSE IF cls[s] = "Update" THEN LinkLines(LinkReactions) \o <<"\nProfile to update:">>
    ELSE ChooseLines(entries[s])

\* C8: the embed never has a title of more than 256 characters; a title of at
\* most 256 is the title and adds nothing to the body, a longer one is not the
\* title and is in the body
C8_TitleBound ==
    \A s \in Sessions :
        Started(s) =>
            /\ embed[s].title # None => Len(embed[s].title) <= TitleLimit
            /\ (Truthy(title[s]) /\ Len(title[s]) <= TitleLimit) =>
                  /\ embed[s].title = title[s]
                  /\ description[s] = BodyLines(s)
            /\ (Truthy(title[s]) /\ Len(title[s]) > TitleLimit) =>
                  /\ embed[s].title = None
                  /\ description[s] = <<title[s]>> \o BodyLines(s)
            /\ embed[s].description = Join(description[s])

\* C8: a prompt started with a title of more than 256 characters
C8_Witness ==
    \E s \in Sessions :
        /\ Started(s) /\ Truthy(title[s]) /\ Len(title[s]) > TitleLimit
        /\ embed[s].title = None

\* C9: the error of a failed send is what start() raises, and the session does
\* nothing more: no task, no wait, no delete
C9_SendErrorPropagates ==
    \A s \in Sessions :
        SendFailed(s) =>
            /\ pc[s] = "done"
            /\ outcome[s] = Raise(sendLog[s][1])
            /\ Len(sendLog[s]) = 1
            /\ message[s] = NoMessage
            /\ task[s] = "none" /\ attached[s] = <<>>
            /\ reaction[s] = NoReaction
            /\ deleteLog[s] = <<>>

\* C9: a send that failed with Forbidden
C9_Witness ==
    \E s \in Sessions : SendFailed(s) /\ outcome[s] = Raise("Forbidden")

\* C10: whatever message.delete() answers, start() ends as it does when the
\* delete succeeds: with the resolved value, or with NoChoice after a timeout
C10_DeleteFailureSwallowed ==
    \A s \in Sessions :
        (pc[s] \in {"cleaned", "done"} /\ deleteLog[s] # <<>>) =>
            LET expected == IF reaction[s] = NoReaction THEN Raise("NoChoice")
                            ELSE result(s, reaction[s])
            IN /\ pending[s] = expected
               /\ pc[s] = "done" => outcome[s] = expected
               /\ outcome[s].value \notin {"Forbidden", "HTTPException", "NotFound"}

\* C10: the message was deleted by somebody else, start() returned its value
C10_Witness ==
    \E s \in Sessions :
        /\ pc[s] = "done" /\ outcome[s].kind = "return"
        /\ deleteLog[s] # <<>> /\ deleteLog[s][1].answer = "NotFound"

\* the markers of a prompt in their declared order
DeclaredOrder(s) ==
    IF IsLink(cls[s])
    THEN <<"<:battlenet:679469162724196387>", "<:psn:679468542541693128>",
           "<:xbl:679469487623503930>", "<:nsw:752653766377078817>", CrossMark>>
    ELSE [i \in 1..Len(entries[s]) |-> Keycap(i)]

\* a is the beginning of b
IsPrefix(a, b) == Len(a) <= Len(b) /\ a = SubSeq(b, 1, Len(a))

\* what decides which reaction events the wait of a session accepts, and what
\* the caller of start() sees
WaitState(s) ==
    <<reactions[s], author[s], message[s], pc[s], reaction[s], pending[s], outcome[s]>>

\* C11: the attached markers are a beginning of the declared order (the cross
\* mark of Link only after the four platforms), nothing attached is taken away,
\* nothing is attached after the task ended, and a failed attach ends the task
\* and changes nothing of the wait or of what start() gives
C11_AttachedIsPrefix ==
    /\ [](\A s \in Sessions :
            /\ IsPrefix(attached[s], DeclaredOrder(s))
            /\ (IsLink(cls[s]) /\ CrossMark \in Range(attached[s])) => Len(attached[s]) = 5
            /\ outcome[s].kind = "raise" =>
                  outcome[s].value \in {"NoChoice", "CannotAddReactions"} \cup (SendAnswers \ {"ok"})
            /\ (task[s] = "running" /\ ridx[s] < Len(DeclaredOrder(s))) =>
                  ENABLED (/\ AddReaction(s, FALSE)
                           /\ task'[s] = "ended"
                           /\ attached'[s] = attached[s]
                           /\ WaitState(s)' = WaitState(s)))
    /\ [][\A s \in Sessions :
            /\ IsPrefix(attached[s], attached'[s])
            /\ task[s] = "ended" => attached'[s] = attached[s] /\ task'[s] = "ended"]_vars

\* C11: the attach of the third marker of Link failed on a message that exists
C11_Witness ==
    \E s \in Sessions :
        /\ cls[s] = "Link" /\ task[s] = "ended" /\ message[s] \in msgs
        /\ Len(attached[s]) = 2 /\ pc[s] = "waiting"

\* the value a marker of a prompt stands for
ValueOf(s, e) ==
    IF IsLink(cls[s]) THEN PlatformOf(e)
    ELSE entries[s][CHOOSE i \in 1..Len(entries[s]) : Keycap(i) = e]

\* C12: the wait begins in the step that creates the registration task, and a
\* reaction of the invoking user on the rendered message with a configured
\* marker the bot has not attached ends the wait and is resolved to the value
\* of that marker, wherever the registration stands
C12_EarlySignalResolves ==
    \A s \in Sessions :
        /\ task[s] # "none" => pc[s] \notin {"constructed", "sending"}
        /\ pc[s] = "waiting" =>
              \A r \in Reactions :
                  (FilterPasses(s, r) /\ r.emoji \notin Range(attached[s])) =>
                      ENABLED (Signal(r) /\ pc'[s] = "accepted" /\ reaction'[s] = r)
        /\ (pc[s] \in {"cleaned", "done"} /\ reaction[s] # NoReaction) =>
              pending[s] = Return(ValueOf(s, reaction[s].emoji))
        /\ (pc[s] = "done" /\ reaction[s] # NoReaction) =>
              outcome[s] = Return(ValueOf(s, reaction[s].emoji))

\* C12: start() returned the value of a marker the bot never attached, the
\* registration having stopped on a failure before it
C12_Witness ==
    \E s \in Sessions :
        /\ pc[s] = "done" /\ reaction[s] # NoReaction
        /\ reaction[s].emoji \notin Range(attached[s])
        /\ task[s] = "ended" /\ Len(attached[s]) = 1
        /\ outcome[s] = Return(ValueOf(s, reaction[s].emoji))

\* the title of a prompt is set and longer than the limit
TitleTooLong(s) == Truthy(title[s]) /\ Len(title[s]) > TitleLimit

\* the embed as init_embed returns it, before start() sets body and fields
AsBuilt(e) == [e EXCEPT !.description = None, !.fields = <<>>]

\* C13 as stated: init_embed has no side effect, the body lines of the prompt
\* are the same after the call as before it, whatever the title, and a second
\* call gives the same embed
C13_InitEmbedPure ==
    \A s \in Sessions :
        /\ pc[s] # "unused" =>
              \A a \in Users : init_embed(s, a).description = description[s]
        /\ Started(s) => init_embed(s, author[s]).embed = AsBuilt(embed[s])

\* C13 amended: init_embed leaves the body lines as they are for no title or a
\* title of at most 256 characters, appends the title to them for a longer
\* title, and a second call gives the same embed as the first
C13_InitEmbedAppendsLongTitle ==
    \A s \in Sessions :
        /\ pc[s] # "unused" =>
              \A a \in Users :
                  init_embed(s, a).description =
                      IF TitleTooLong(s) THEN Append(description[s], title[s])
                      ELSE description[s]
        /\ Started(s) =>
              /\ init_embed(s, author[s]).embed = AsBuilt(embed[s])
              /\ TitleTooLong(s) => description[s][1] = title[s]
              /\ (Truthy(title[s]) /\ ~TitleTooLong(s)) => title[s] \notin Range(description[s])

\* C13: start() called init_embed on a prompt with a title of 257 characters
\* and the title is now the first body line
C13_Witness ==
    \E s \in Sessions :
        /\ Started(s) /\ TitleTooLong(s)
        /\ description[s] # <<>> /\ description[s][1] = title[s]
        /\ init_embed(s, author[s]).description # description[s]

\* C14: when start() raises CannotAddReactions, no embed was built and the
\* body lines, the marker list and the ctx and author references of the prompt
\* are as the constructor left them
C14_NoRenderingOnFailure ==
    \A s \in Sessions :
        outcome[s] = Raise("CannotAddReactions") =>
            /\ embed[s] = EmptyEmbed
            /\ description[s] = <<>>
            /\ reactions[s] = (IF IsLink(cls[s]) THEN LinkReactions ELSE <<>>)
            /\ ctx[s] = NoCtx
            /\ author[s] = None

\* the four lines of a Link prompt
LinkBody ==
    << "<:battlenet:679469162724196387> - PC",
       "<:psn:679468542541693128> - Playstation",
       "<:xbl:679469487623503930> - Xbox",
       "<:nsw:752653766377078817> - Switch" >>

\* the body text of the four lines
LinkBodyText ==
    "<:battlenet:679469162724196387> - PC\n<:psn:679468542541693128> - Playstation\n<:xbl:679469487623503930> - Xbox\n<:nsw:752653766377078817> - Switch"

\* C15: from the moment start() is about to send until it has ended in any
\* way, the body of a Link prompt is the four lines marker - platform name in
\* the declared order, with no line for the cancel marker
C15_LinkBodyFixed ==
    \A s \in Sessions :
        (cls[s] = "Link" /\ Started(s)) =>
            /\ description[s] = LinkBody
            /\ embed[s].description = LinkBodyText

\* C15: a Link prompt that timed out, its body still the four lines
C15_Witness ==
    \E s \in Sessions :
        /\ cls[s] = "Link" /\ pc[s] = "done" /\ outcome[s] = Raise("NoChoice")
        /\ embed[s].description = LinkBodyText

\* C16: an Update prompt has the reactions of Link, its wait accepts exactly
\* the events a Link prompt accepts, every marker is resolved to the value Link
\* gives it, and from before the send on its embed carries the four lines of
\* Link, the heading of the profile, and the two fields Platform and Username
\* with the pending platform and username
C16_UpdateLikeLink ==
    \A s \in Sessions :
        cls[s] = "Update" =>
            /\ reactions[s] = LinkReactions
            /\ \A e \in Range(Emojis) :
                  LET r == [user |-> "alice", message |-> ForeignMessage, emoji |-> e]
                  IN result(s, r) = Return(PlatformOf(e)) \/ e \notin Range(DeclaredOrder(s))
            /\ pc[s] = "waiting" =>
                  \A r \in Reactions :
                      IF /\ r.user = author[s] /\ r.user # BotUser /\ r.message = message[s]
                         /\ PlatformOf(r.emoji) \in {None, "pc", "psn", "xbl", "nintendo-switch"}
                      THEN ENABLED (Signal(r) /\ pc'[s] = "accepted" /\ reaction'[s] = r)
                      ELSE ENABLED (Signal(r) /\ SessionState(s)' = SessionState(s))
            /\ (pc[s] = "done" /\ reaction[s] # NoReaction) =>
                  outcome[s] = Return(PlatformOf(reaction[s].emoji))
            /\ Started(s) =>
                  /\ description[s] = LinkBody \o <<"\nProfile to update:">>
                  /\ embed[s].description = LinkBodyText \o "\n\nProfile to update:"
                  /\ embed[s].fields = << [name |-> "Platform", value |-> platform[s]],
                                          [name |-> "Username", value |-> username[s]] >>

\* C16: an Update prompt resolved to psn, its two fields on the embed
C16_Witness ==
    \E s \in Sessions :
        /\ cls[s] = "Update" /\ pc[s] = "done" /\ outcome[s] = Return("psn")
        /\ Len(embed[s].fields) = 2 /\ embed[s].fields[1].value = "pc"

\* the steps a session can take from one phase to the next: rendered and about
\* to send, waiting, resolved or timed out, cleaned up, ended; start() ends
\* early when the permission is missing or the send fails
PhaseSteps ==
    { <<"constructed", "sending">>, <<"constructed", "done">>,
      <<"sending", "waiting">>, <<"sending", "done">>,
      <<"waiting", "accepted">>, <<"waiting", "timedout">>,
      <<"accepted", "cleaned">>, <<"timedout", "cleaned">>,
      <<"cleaned", "done">> }

\* C17: a session goes through its phases in order and never back; it waits
\* only once its message was sent, it sends and so waits at most once, a
\* resolved session holds the one reaction that ended its wait, and nothing is
\* accepted once the wait is over
C17_PhasesInOrder ==
    /\ [](\A s \in Sessions :
            /\ pc[s] \in {"waiting", "accepted", "timedout", "cleaned"} =>
                  /\ sendLog[s] = <<"ok">>
                  /\ message[s] # NoMessage
            /\ Len(sendLog[s]) <= 1
            /\ (reaction[s] # NoReaction) <=>
                  (pc[s] = "accepted" \/ (pc[s] \in {"cleaned", "done"} /\ pending[s].kind = "return"))
            /\ pc[s] \in {"accepted", "timedout"} => deleteLog[s] = <<>>
            /\ pc[s] = "cleaned" => Len(deleteLog[s]) = 1)
    /\ [][\A s \in Sessions :
            /\ pc'[s] # pc[s] => <<pc[s], pc'[s]>> \in PhaseSteps
            /\ pc[s] # "waiting" => reaction'[s] = reaction[s]
            /\ reaction'[s] # reaction[s] => pc'[s] = "accepted"]_vars

\* C17: a session that went through every phase: sent, resolved, cleaned up, ended
C17_Witness ==
    \E s \in Sessions :
        /\ pc[s] = "done" /\ sendLog[s] = <<"ok">>
        /\ reaction[s] # NoReaction /\ Len(deleteLog[s]) = 1

\* C18: a session whose send succeeded ends; while it waits the timeout can
\* fire, an event that fails the filter changes nothing of it, and the wait
\* ends only on an event that passes the filter or on the timeout
C18_SessionEnds ==
    /\ \A s \in Sessions : (sendLog[s] = <<"ok">>) ~> (pc[s] = "done")
    /\ [](\A s \in Sessions :
            pc[s] = "waiting" =>
                /\ ENABLED TimeOut(s)
                /\ \A r \in Reactions :
                      ~FilterPasses(s, r) =>
                          ENABLED (Signal(r) /\ SessionState(s)' = SessionState(s)))
    /\ [][\A s \in Sessions :
            (pc[s] = "waiting" /\ pc'[s] # "waiting") =>
                \/ pc'[s] = "timedout" /\ reaction'[s] = NoReaction
                \/ pc'[s] = "accepted" /\ FilterPasses(s, reaction'[s])]_vars

\* C18: a session that was sent, timed out and ended, its message gone
C18_Witness ==
    \E s \in Sessions :
        /\ sendLog[s] = <<"ok">> /\ pc[s] = "done"
        /\ reaction[s] = NoReaction /\ message[s] \notin msgs

\* C19: once the message of a session is gone, the next turn of add_reactions
\* fails and ends the task with nothing more attached and nothing changed for
\* the caller; a marker is attached only to a message that exists; and the
\* task, which start() does not wait for, always ends
C19_RegistrationEnds ==
    /\ \A s \in Sessions : (task[s] = "running") ~> (task[s] = "ended")
    /\ [](\A s \in Sessions :
            (task[s] = "running" /\ message[s] \notin msgs) =>
                /\ \A ok \in BOOLEAN :
                      ENABLED (/\ AddReaction(s, ok)
                               /\ task'[s] = "ended"
                               /\ attached'[s] = attached[s]
                               /\ WaitState(s)' = WaitState(s))
                /\ ~ENABLED (\E ok \in BOOLEAN : AddReaction(s, ok) /\ task'[s] # "ended"))
    /\ [][\A s \in Sessions :
            /\ attached'[s] # attached[s] => message[s] \in msgs
            /\ (task[s] = "running" /\ task'[s] = "ended") => outcome'[s] = outcome[s]]_vars

\* C19: start() has ended and deleted its message while add_reactions is still
\* running, with markers left to attach
C19_Witness ==
    \E s \in Sessions :
        /\ pc[s] = "done" /\ task[s] = "running" /\ ridx[s] < Len(DeclaredOrder(s))
        /\ deleteLog[s] # <<>> /\ deleteLog[s][1].answer = "ok" /\ message[s] \notin msgs

\* a Choose prompt constructed with an empty list of entries
EmptyChoose(s) == cls[s] = "Choose" /\ Len(entries[s]) = 0

\* C20: a Choose prompt with no entries is started like any other: with the
\* permission it sends its message; it has no marker, attaches none, accepts no
\* reaction event, and once sent it ends with NoChoice after one delete call
C20_EmptyChooseTimesOut ==
    /\ \A s \in Sessions :
          (EmptyChoose(s) /\ sendLog[s] = <<"ok">>) ~>
              (pc[s] = "done" /\ outcome[s] = Raise("NoChoice"))
    /\ [](\A s \in Sessions :
            EmptyChoose(s) =>
                /\ (pc[s] = "done" /\ ctx[s].add_reactions) => Len(sendLog[s]) = 1
                /\ reactions[s] = <<>> /\ attached[s] = <<>>
                /\ reaction[s] = NoReaction /\ pc[s] # "accepted"
                /\ pc[s] = "waiting" =>
                      /\ ENABLED TimeOut(s)
                      /\ \A r \in Reactions :
                            ENABLED (Signal(r) /\ SessionState(s)' = SessionState(s))
                /\ (pc[s] = "done" /\ sendLog[s] = <<"ok">>) =>
                      /\ outcome[s] = Raise("NoChoice")
                      /\ Len(deleteLog[s]) = 1
                      /\ deleteLog[s][1].message = message[s])

\* C20: a Choose prompt with no entries was sent and ended with NoChoice, its
\* message deleted
C20_Witness ==
    \E s \in Sessions :
        /\ EmptyChoose(s) /\ pc[s] = "done" /\ sendLog[s] = <<"ok">>
        /\ outcome[s] = Raise("NoChoice")
        /\ deleteLog[s][1].answer = "ok" /\ message[s] \notin msgs

\* the branches of the filter other than the one on the bot's own id
OtherBranchesPass(s, r) ==
    r.user = author[s] /\ r.message = message[s] /\ InReactions(s, r.emoji)

\* C21: when the invoking user is not the bot, a reaction event of the bot is
\* rejected by the test of the invoking user already, and the filter decides as
\* it would without the test of the bot's id; when the invoking user is the bot,
\* no event is accepted and a prompt that was sent ends with NoChoice
C21_SelfBranchNeverDecides ==
    /\ \A s \in Sessions :
          (author[s] = BotUser /\ sendLog[s] = <<"ok">>) ~>
              (pc[s] = "done" /\ outcome[s] = Raise("NoChoice"))
    /\ [](\A s \in Sessions :
            /\ (pc[s] = "waiting" /\ author[s] # BotUser) =>
                  \A r \in Reactions :
                      /\ r.user = BotUser => r.user # author[s]
                      /\ check(s, r) <=> OtherBranchesPass(s, r)
            /\ author[s] = BotUser =>
                  /\ pc[s] # "accepted" /\ reaction[s] = NoReaction
                  /\ pc[s] = "waiting" =>
                        /\ ENABLED TimeOut(s)
                        /\ \A r \in Reactions :
                              ENABLED (Signal(r) /\ SessionState(s)' = SessionState(s))
                  /\ (pc[s] = "done" /\ sendLog[s] = <<"ok">>) =>
                        outcome[s] = Raise("NoChoice"))

\* C21: a prompt invoked by the bot itself attached its markers, so that events
\* of the bot on them were possible, and ended with NoChoice
C21_Witness ==
    \E s \in Sessions :
        /\ author[s] = BotUser /\ pc[s] = "done" /\ sendLog[s] = <<"ok">>
        /\ attached[s] # <<>>
        /\ outcome[s] = Raise("NoChoice")

\* k copies of a list, one after the other
RECURSIVE Copies(_, _)
Copies(l, k) == IF k = 0 THEN <<>> ELSE Copies(l, k - 1) \o l

\* the body lines one call of start() adds on a Choose prompt
ChooseBody(s) ==
    (IF TitleTooLong(s) THEN <<title[s]>> ELSE <<>>) \o ChooseLines(entries[s])

\* the reaction event of the invoking user with the keycap of i on the message
KeycapEvent(s, i) == [user |-> author[s], message |-> message[s], emoji |-> Keycap(i)]

\* C22: start() on a used Choose object keeps self.description and
\* self.reactions and appends to them; after k calls they hold k copies, yet the
\* set of accepted markers is the one of the first call and the keycap of i
\* still makes start() return the entry at position i
C22_RestartKeepsResults ==
    /\ [][\A s \in Sessions :
            cls[s] = "Choose" =>
                \/ reactions'[s] = reactions[s] /\ description'[s] = description[s]
                \/ /\ reactions'[s] = reactions[s] \o ChooseMarkers(entries[s])
                   /\ description'[s] = description[s] \o ChooseBody(s)]_vars
    /\ [](\A s \in Sessions :
            (cls[s] = "Choose" /\ Started(s)) =>
                /\ \E k \in 1..MaxStarts :
                      /\ k >= Len(sendLog[s])
                      /\ reactions[s] = Copies(ChooseMarkers(entries[s]), k)
                      /\ description[s] = Copies(ChooseBody(s), k)
                /\ Range(reactions[s]) = MarkerSet(s)
                /\ pc[s] = "waiting" =>
                      /\ \A r \in Reactions : check(s, r) <=> FilterPasses(s, r)
                      /\ \A i \in 1..Len(entries[s]) :
                            /\ result(s, KeycapEvent(s, i)) = Return(entries[s][i])
                            /\ author[s] # BotUser =>
                                  ENABLED (/\ Signal(KeycapEvent(s, i))
                                           /\ pc'[s] = "accepted"
                                           /\ reaction'[s] = KeycapEvent(s, i))
                /\ (pc[s] = "done" /\ reaction[s] # NoReaction) =>
                      \E i \in 1..Len(entries[s]) :
                          /\ reaction[s].emoji = Keycap(i)
                          /\ outcome[s] = Return(entries[s][i]))

\* C22: the second call of start() on a Choose prompt with entries A, B sent its
\* message with the keycaps and the lines twice over, and returned B for the
\* keycap of 2
C22_Witness ==
    \E s \in Sessions :
        /\ cls[s] = "Choose" /\ entries[s] = <<"A", "B">> /\ Len(sendLog[s]) = 2
        /\ reactions[s] = <<Keycap(1), Keycap(2), Keycap(1), Keycap(2)>>
        /\ Len(description[s]) = 2 * Len(ChooseBody(s))
        /\ pc[s] = "done" /\ reaction[s].emoji = Keycap(2) /\ outcome[s] = Return("B")

====
